---- MODULE Spec2Model ----
(***************************************************************************)
(* Retrying HTTP transport of reve-go: the error classifier                *)
(* (internal/transport/errors.go), the single-attempt executor             *)
(* (internal/transport/client.go) and the retry loop (Retrier.Do/DoRaw).   *)
(*                                                                         *)
(* One call of Client.Do / Client.DoRaw is a process whose position is pc: *)
(*   "idle"     the call has not been made yet                             *)
(*   "call"     the attempt function fn() is in flight                     *)
(*   "select"   wait() has armed its timer and is about to poll its select *)
(*   "parked"   wait() is blocked in its select, no case ready yet         *)
(*   "wokeCtx"  a parked select was woken by ctx.Done()                    *)
(*   "done"     the call has returned `result`                             *)
(* The context's cancellation and the backoff timer are the environment.   *)
(***************************************************************************)
EXTENDS Integers, Sequences, FiniteSets, TLC

\* ------------------------------------------------------------------ bounds

\* Largest maxRetries a Retrier is configured with (the smallest is -1:
\* NewRetrier accepts any int).
MaxRetriesBound == 2

\* Largest HTTP status the classifier run draws (statuses are 0 .. MaxStatus;
\* 0 is the StatusCode of an APIError built without one).
MaxStatus == 599

\* ------------------------------------------------------------- error values

\* ErrorCode constants, errors.go:13-22.
ErrCodeMissingParam == "MISSING_REQUIRED_PARAMETER"
ErrCodePromptTooLong == "PROMPT_TOO_LONG"
ErrCodeContentViolation == "CONTENT_POLICY_VIOLATION"
ErrCodeIndexOutOfBounds == "INDEX_OUT_OF_BOUNDS"
ErrCodeInvalidAPIKey == "INVALID_API_KEY"
ErrCodeInsufficientFunds == "INSUFFICIENT_CREDITS"
ErrCodeRateLimit == "RATE_LIMIT_EXCEEDED"
ErrCodeInternal == "INTERNAL_ERROR"

KnownCodes ==
  { ErrCodeMissingParam, ErrCodePromptTooLong, ErrCodeContentViolation,
    ErrCodeIndexOutOfBounds, ErrCodeInvalidAPIKey, ErrCodeInsufficientFunds,
    ErrCodeRateLimit, ErrCodeInternal }

\* net/http status constants the code names.
StatusUnauthorized == 401
StatusPaymentRequired == 402
StatusTooManyRequests == 429
StatusInternalServerError == 500
StatusBadGateway == 502
StatusServiceUnavailable == 503
StatusGatewayTimeout == 504

\* A nil error.
NoError == [kind |-> "nil", status |-> 0, code |-> "", op |-> "", cause |-> ""]

\* &APIError{Code, StatusCode}.
APIError(status, code) ==
  [kind |-> "api", status |-> status, code |-> code, op |-> "", cause |-> ""]

\* &RequestError{Op, Err}.
RequestError(op, cause) ==
  [kind |-> "request", status |-> 0, code |-> "", op |-> op, cause |-> cause]

\* ctx.Err() of a cancelled context: context.Canceled or DeadlineExceeded.
CtxError(c) ==
  [kind |-> "ctx", status |-> 0, code |-> "", op |-> "", cause |-> c]

\* A nil *Response / *RawResponse.
NilResp == [kind |-> "nil", status |-> 0, body |-> "", reqId |-> ""]

\* isRetryableStatus with 504 forgotten.
isRetryableStatusNo504(code) ==
  code \in { StatusTooManyRequests, StatusInternalServerError,
             StatusBadGateway, StatusServiceUnavailable }

\* isRetryableStatus taking every 4xx/5xx for retryable.
isRetryableStatusAnyFailure(code) == code >= 400

isRetryableStatus(code) ==
  code \in { StatusTooManyRequests, StatusInternalServerError,
             StatusBadGateway, StatusServiceUnavailable, StatusGatewayTimeout }

\* Retryable taking every status below 400 for retryable as well.
RetryableBelow400Too(e) == e.status < 400 \/ isRetryableStatus(e.status)

\* (*APIError).Retryable.
Retryable(e) == isRetryableStatus(e.status)

\* IsAuthError looking at the code alone.
IsAuthErrorCodeOnly(e) == e.code = ErrCodeInvalidAPIKey

\* (*APIError).IsRateLimit.
IsRateLimit(e) == e.code = ErrCodeRateLimit \/ e.status = StatusTooManyRequests

\* (*APIError).IsInsufficientFunds.
IsInsufficientFunds(e) ==
  e.code = ErrCodeInsufficientFunds \/ e.status = StatusPaymentRequired

\* (*APIError).IsContentViolation.
IsContentViolation(e) == e.code = ErrCodeContentViolation

\* (*APIError).IsAuthError.
IsAuthError(e) == e.code = ErrCodeInvalidAPIKey \/ e.status = StatusUnauthorized

\* The four predicates' answers for e.
Predicates(e) ==
  [rateLimit |-> IsRateLimit(e), funds |-> IsInsufficientFunds(e),
   content |-> IsContentViolation(e), auth |-> IsAuthError(e)]

\* ParseError inferring nothing for 402.
InferCodeNo402(status) ==
  CASE status = StatusUnauthorized -> ErrCodeInvalidAPIKey
    [] status = StatusTooManyRequests -> ErrCodeRateLimit
    [] status = StatusInternalServerError -> ErrCodeInternal
    [] OTHER -> ""

\* ParseError's inference of the code from the status (the switch).
InferCode(status) ==
  CASE status = StatusUnauthorized -> ErrCodeInvalidAPIKey
    [] status = StatusPaymentRequired -> ErrCodeInsufficientFunds
    [] status = StatusTooManyRequests -> ErrCodeRateLimit
    [] status = StatusInternalServerError -> ErrCodeInternal
    [] OTHER -> ""

\* ParseError(resp, body).  body.json says whether json.Unmarshal returned nil,
\* body.code is the error_code it stored in apiErr: "" when the body has none
\* or is no JSON at all, and possibly a code although Unmarshal failed (a
\* type error in another field leaves the fields it could decode).
ParseError(status, body) ==
  LET decoded == body.code
  IN  APIError(status, IF decoded = "" THEN InferCode(status) ELSE decoded)

\* ------------------------------------------------- the attempt (client.go)

\* Statuses, bodies and X-Reve-Error-Code values the server answers with in
\* the retry model.
OrchStatuses == {200, 400, StatusTooManyRequests, StatusServiceUnavailable}
OrchBodies ==
  { [json |-> FALSE, code |-> ""], [json |-> TRUE, code |-> ""],
    [json |-> TRUE, code |-> ErrCodeContentViolation] }
OrchErrHeaders == {"", ErrCodeInternal}

\* A header's text, character by character; << >> is an absent header.
NoHeader == << >>

\* What one round trip meets: a failure before any response (json.Marshal,
\* http.NewRequestWithContext, httpClient.Do) or a response, whose body may
\* fail to read.
NetFailures ==
  { [net |-> "marshal", cause |-> "unsupported type"],
    [net |-> "create request", cause |-> "bad method"],
    [net |-> "http", cause |-> "timeout"],
    [net |-> "http", cause |-> "refused"],
    [net |-> "http", cause |-> "context"] }

NetResponses ==
  [net : {"response"}, status : OrchStatuses, errHeader : OrchErrHeaders,
   readOK : BOOLEAN, body : OrchBodies, credUsed : {NoHeader},
   credRem : {NoHeader}, cv : {""}]

NetOutcomes == NetFailures \cup NetResponses

\* (resp, err) as a function returns them.
Pair(resp, err) == [resp |-> resp, err |-> err]

\* &Response{Body, Status, RequestID}.
Response(n) ==
  [kind |-> "json", status |-> n.status, body |-> n.body, reqId |-> "rid"]

DigitValue ==
  ("0" :> 0) @@ ("1" :> 1) @@ ("2" :> 2) @@ ("3" :> 3) @@ ("4" :> 4) @@
  ("5" :> 5) @@ ("6" :> 6) @@ ("7" :> 7) @@ ("8" :> 8) @@ ("9" :> 9)

\* fmt's SkipSpace before a %d verb.
RECURSIVE SkipSpace(_)
SkipSpace(t) ==
  IF t # << >> /\ Head(t) = " " THEN SkipSpace(Tail(t)) ELSE t

\* The digits fmt's scanNumber accepts off the front of t.
RECURSIVE LeadingDigits(_)
LeadingDigits(t) ==
  IF t # << >> /\ Head(t) \in DOMAIN DigitValue
    THEN << Head(t) >> \o LeadingDigits(Tail(t))
    ELSE << >>

\* strconv.ParseInt of a run of decimal digits.
RECURSIVE DecimalValue(_, _)
DecimalValue(d, acc) ==
  IF d = << >> THEN acc
  ELSE DecimalValue(Tail(d), acc * 10 + DigitValue[Head(d)])

\* fmt.Sscanf(val, "%d", &n) with n zero before: blanks, an optional sign,
\* then digits; without a digit Sscanf fails and n stays 0. What follows the
\* digits is left unread.
Sscanfd(t) ==
  LET u == SkipSpace(t)
      signed == u # << >> /\ Head(u) \in {"+", "-"}
      d == LeadingDigits(IF signed THEN Tail(u) ELSE u)
  IN  IF d = << >> THEN 0
      ELSE IF signed /\ Head(u) = "-" THEN 0 - DecimalValue(d, 0)
      ELSE DecimalValue(d, 0)

\* parseIntHeader.
parseIntHeader(t) == IF t = NoHeader THEN 0 ELSE Sscanfd(t)

\* The content-violation flag set by any non-empty header.
contentViolationNonEmpty(v) == v # ""

\* resp.Header.Get("X-Reve-Content-Violation") == "true".
contentViolation(v) == v = "true"

\* &RawResponse{Data, ..., RequestID, CreditsUsed, CreditsRemaining}: it
\* keeps no status.
RawResponse(n) ==
  [kind |-> "raw", status |-> 0, body |-> n.body, reqId |-> "rid",
   contentViolation |-> contentViolation(n.cv),
   creditsUsed |-> parseIntHeader(n.credUsed),
   creditsRemaining |-> parseIntHeader(n.credRem)]

\* buildRequest, then httpClient.Do: the errors met before a response.
beforeResponse(n) ==
  CASE n.net = "marshal" -> RequestError("marshal", n.cause)
    [] n.net = "create request" -> RequestError("create request", n.cause)
    [] n.net = "http" -> RequestError("http", n.cause)
    [] OTHER -> NoError

\* Client.execute.
execute(n) ==
  IF beforeResponse(n) # NoError THEN Pair(NilResp, beforeResponse(n))
  ELSE IF ~n.readOK THEN Pair(NilResp, RequestError("read response", "io"))
  ELSE IF n.status >= 400 THEN Pair(NilResp, ParseError(n.status, n.body))
  ELSE Pair(Response(n), NoError)

\* executeRaw looking for X-Reve-Error-Code on failure statuses only.
executeRawHeaderOnFailureOnly(n) ==
  IF beforeResponse(n) # NoError THEN Pair(NilResp, beforeResponse(n))
  ELSE IF n.errHeader # "" /\ n.status >= 400
       THEN Pair(NilResp,
                 ParseError(n.status,
                            IF n.readOK THEN n.body
                            ELSE [json |-> FALSE, code |-> ""]))
  ELSE IF ~n.readOK THEN Pair(NilResp, RequestError("read response", "io"))
  ELSE Pair(RawResponse(n), NoError)

\* Client.executeRaw.  With X-Reve-Error-Code set the body read's error is
\* dropped: a failed read hands ParseError the truncated bytes, which do not
\* decode.
executeRaw(n) ==
  IF beforeResponse(n) # NoError THEN Pair(NilResp, beforeResponse(n))
  ELSE IF n.errHeader # ""
       THEN Pair(NilResp,
                 ParseError(n.status,
                            IF n.readOK THEN n.body
                            ELSE [json |-> FALSE, code |-> ""]))
  ELSE IF ~n.readOK THEN Pair(NilResp, RequestError("read response", "io"))
  ELSE Pair(RawResponse(n), NoError)

\* An executor that sends the request again after a failed httpClient.Do.
roundTripsResend(n) ==
  IF n.net \in {"marshal", "create request"} THEN 0
  ELSE IF n.net = "http" THEN 2 ELSE 1

\* An executor that reaches httpClient.Do whatever buildRequest returned.
roundTripsAlways(n) == 1

\* The httpClient.Do calls of one execute / executeRaw: none when
\* buildRequest fails, else the one call.
roundTrips(n) == IF n.net \in {"marshal", "create request"} THEN 0 ELSE 1

\* The closure Client.Do / Client.DoRaw hands to the retrier.
fn(m, n) == IF m = "json" THEN execute(n) ELSE executeRaw(n)

\* ------------------------------------------------ the retry loop (Retrier)

VARIABLES
  maxRetries,  \* Retrier.maxRetries
  mode,        \* "json": Client.Do / Retrier.Do, "raw": Client.DoRaw / DoRaw
  pc,          \* position of the call
  attempt,     \* the loop variable of Do / DoRaw
  lastErr,     \* the local lastErr
  ctxErr,      \* ctx.Err(): "none", "canceled" or "deadline"
  timerFired,  \* the channel of time.After(backoff) is ready
  started,     \* the loop indices at which fn() was invoked, in order
  history,     \* what each returned fn() returned: [idx, resp, err]
  cancelAt,    \* where the call stood when the context was cancelled
  result,      \* what Do / DoRaw returned
  clsErr,      \* classifier run: the APIError under classification
  clsDone,     \* classifier run: the error has been classified
  clsVerdict,  \* classifier run: what Retryable answered for it
  clsPreds,    \* classifier run: what the four Is... predicates answered
  trips,       \* httpClient.Do calls made by the call's attempts so far
  exIn,        \* executor run: what the round trip meets
  exOut,       \* executor run: what execute / executeRaw returned
  exTrips,     \* executor run: httpClient.Do calls it made
  exDone,      \* executor run: the executor has returned
  bkIn,        \* backoff run: minWait, maxWait, attempt and the random draw
  bkOut,       \* backoff run: the delay before the clamp and the result
  bkDone,      \* backoff run: calculateBackoff has returned
  waits,       \* the attempt indices wait() was called with, in order
  vsIn,        \* validator run: the scaling handed to ValidateScaling
  vsOut,       \* validator run: the error ValidateScaling returned
  vsDone,      \* validator run: ValidateScaling has returned
  peIn,        \* parse run: the response handed to ParseError
  peOut,       \* parse run: the *APIError ParseError returned
  peDone,      \* parse run: ParseError has returned
  req,         \* body run: the *Request handed to buildRequest
  httpReq,     \* body run: what buildRequest returned
  sent,        \* body run: the bytes the transport has read off the body
  replays,     \* body run: the readers GetBody handed out, with their reads
  client,      \* several calls: the Client they share, its Retrier included
  calls        \* several calls: the locals and the context of each call

vars ==
  << maxRetries, mode, pc, attempt, lastErr, ctxErr, timerFired, started,
     history, cancelAt, result, clsErr, clsDone, clsVerdict, clsPreds, trips,
     exIn, exOut, exTrips, exDone, bkIn, bkOut, bkDone, waits, vsIn, vsOut,
     vsDone, peIn, peOut, peDone, req, httpReq, sent, replays,
     client, calls >>

clsVars == << clsErr, clsDone, clsVerdict, clsPreds >>

exVars == << exIn, exOut, exTrips, exDone >>

bkVars == << bkIn, bkOut, bkDone >>

vsVars == << vsIn, vsOut, vsDone >>

peVars == << peIn, peOut, peDone >>

gbVars == << req, httpReq, sent, replays >>

ccVars == << client, calls >>

\* The variables of the runs that stand apart from the retry loop's, the
\* classifier's, the executor's and the backoff's.
restVars == << vsVars, peVars, gbVars, ccVars >>

\* The variables of the retry loop.
doVars ==
  << maxRetries, pc, attempt, lastErr, ctxErr, timerFired, started, history,
     cancelAt, result, trips, waits >>

NotCancelled == [at |-> "never", attempt |-> 0]

\* The for statement's condition with one iteration too many.
LoopCondOffByOne(a, mr) == a <= mr + 1

\* attempt <= r.maxRetries.
LoopCond(a, mr) == a <= mr

\* shouldRetry retrying whatever failed.
shouldRetryAnyError(err) == TRUE

\* shouldRetry retrying transport failures as well.
shouldRetryHTTPErrors(err) ==
  IF err.kind = "api" THEN Retryable(err) ELSE err.op = "http"

\* Retrier.shouldRetry.
shouldRetry(err) == IF err.kind = "api" THEN Retryable(err) ELSE FALSE

\* The err == nil test that never sees a success.
SucceededNever(r) == FALSE

\* err == nil after fn().
Succeeded(r) == r.err = NoError

\* The return after the loop handing back no error.
ExhaustedDropsError(lastE) == Pair(NilResp, NoError)

\* return nil, lastErr.
Exhausted(lastE) == Pair(NilResp, lastE)

\* The iteration looking at ctx.Err() before it looks at fn()'s result.
AfterAttemptCtxFirst(r, lastE, a, mr, c) ==
  IF c # "none"
    THEN [next |-> "return", ret |-> Pair(NilResp, CtxError(c)),
          lastErr |-> r.err, attempt |-> a]
  ELSE IF Succeeded(r)
    THEN [next |-> "return", ret |-> Pair(r.resp, NoError), lastErr |-> lastE,
          attempt |-> a]
  ELSE IF ~shouldRetry(r.err)
    THEN [next |-> "return", ret |-> Pair(NilResp, r.err), lastErr |-> r.err,
          attempt |-> a]
  ELSE IF LoopCond(a + 1, mr)
    THEN [next |-> "wait", ret |-> Pair(NilResp, NoError), lastErr |-> r.err,
          attempt |-> a + 1]
  ELSE [next |-> "return", ret |-> Exhausted(r.err), lastErr |-> r.err,
        attempt |-> a + 1]

\* The iteration looking at ctx.Err() before it asks shouldRetry.
AfterAttemptCtxBeforeRetryCheck(r, lastE, a, mr, c) ==
  IF Succeeded(r)
    THEN [next |-> "return", ret |-> Pair(r.resp, NoError), lastErr |-> lastE,
          attempt |-> a]
  ELSE IF c # "none"
    THEN [next |-> "return", ret |-> Pair(NilResp, CtxError(c)),
          lastErr |-> r.err, attempt |-> a]
  ELSE IF ~shouldRetry(r.err)
    THEN [next |-> "return", ret |-> Pair(NilResp, r.err), lastErr |-> r.err,
          attempt |-> a]
  ELSE IF LoopCond(a + 1, mr)
    THEN [next |-> "wait", ret |-> Pair(NilResp, NoError), lastErr |-> r.err,
          attempt |-> a + 1]
  ELSE [next |-> "return", ret |-> Exhausted(r.err), lastErr |-> r.err,
        attempt |-> a + 1]

\* The iteration whose retry leaves the loop variable as it is.
AfterAttemptNoIncrement(r, lastE, a, mr, c) ==
  IF Succeeded(r)
    THEN [next |-> "return", ret |-> Pair(r.resp, NoError), lastErr |-> lastE,
          attempt |-> a]
  ELSE IF ~shouldRetry(r.err)
    THEN [next |-> "return", ret |-> Pair(NilResp, r.err), lastErr |-> r.err,
          attempt |-> a]
  ELSE IF c # "none"
    THEN [next |-> "return", ret |-> Pair(NilResp, CtxError(c)),
          lastErr |-> r.err, attempt |-> a]
  ELSE IF LoopCond(a + 1, mr)
    THEN [next |-> "wait", ret |-> Pair(NilResp, NoError), lastErr |-> r.err,
          attempt |-> a]
  ELSE [next |-> "return", ret |-> Exhausted(r.err), lastErr |-> r.err,
        attempt |-> a + 1]

\* The body of one iteration from fn()'s return r on, and the loop's next
\* condition: either the call returns ret, or it goes on to wait().
AfterAttempt(r, lastE, a, mr, c) ==
  IF Succeeded(r)
    THEN [next |-> "return", ret |-> Pair(r.resp, NoError), lastErr |-> lastE,
          attempt |-> a]
  ELSE IF ~shouldRetry(r.err)
    THEN [next |-> "return", ret |-> Pair(NilResp, r.err), lastErr |-> r.err,
          attempt |-> a]
  ELSE IF c # "none"
    THEN [next |-> "return", ret |-> Pair(NilResp, CtxError(c)),
          lastErr |-> r.err, attempt |-> a]
  ELSE IF LoopCond(a + 1, mr)
    THEN [next |-> "wait", ret |-> Pair(NilResp, NoError), lastErr |-> r.err,
          attempt |-> a + 1]
  ELSE [next |-> "return", ret |-> Exhausted(r.err), lastErr |-> r.err,
        attempt |-> a + 1]

\* The same of DoRaw: the body of one iteration from fn()'s return r on.
AfterAttemptRaw(r, lastE, a, mr, c) ==
  IF Succeeded(r)
    THEN [next |-> "return", ret |-> Pair(r.resp, NoError), lastErr |-> lastE,
          attempt |-> a]
  ELSE IF ~shouldRetry(r.err)
    THEN [next |-> "return", ret |-> Pair(NilResp, r.err), lastErr |-> r.err,
          attempt |-> a]
  ELSE IF c # "none"
    THEN [next |-> "return", ret |-> Pair(NilResp, CtxError(c)),
          lastErr |-> r.err, attempt |-> a]
  ELSE IF LoopCond(a + 1, mr)
    THEN [next |-> "wait", ret |-> Pair(NilResp, NoError), lastErr |-> r.err,
          attempt |-> a + 1]
  ELSE [next |-> "return", ret |-> Exhausted(r.err), lastErr |-> r.err,
        attempt |-> a + 1]

\* The iteration of Retrier.Do for Client.Do, of Retrier.DoRaw for
\* Client.DoRaw.
iteration(m, r, lastE, a, mr, c) ==
  IF m = "json" THEN AfterAttempt(r, lastE, a, mr, c)
  ELSE AfterAttemptRaw(r, lastE, a, mr, c)

\* wait's select forgetting the cancellation: both cases return nil.
waitResultIgnoresCtx(case, c) == NoError

\* What wait returns when its select takes `case`.
waitResult(case, c) == IF case = "ctx" THEN CtxError(c) ELSE NoError

\* wait's select with a timer that is ready at once, whatever the backoff.
ReadyCasesTimerAlways(c, fired) ==
  {k \in {"ctx", "timer"} : (k = "ctx" /\ c # "none") \/ k = "timer"}

\* The cases of wait's select that are ready.
ReadyCases(c, fired) ==
  {k \in {"ctx", "timer"} : (k = "ctx" /\ c # "none") \/ (k = "timer" /\ fired)}

NoPreds ==
  [rateLimit |-> FALSE, funds |-> FALSE, content |-> FALSE, auth |-> FALSE]

\* No classifier run.
ClsIdle ==
  /\ clsErr = NoError
  /\ clsDone = FALSE
  /\ clsVerdict = FALSE
  /\ clsPreds = NoPreds

NoInput == [net |-> "none"]

\* No executor run.
ExIdle ==
  /\ exIn = NoInput
  /\ exOut = Pair(NilResp, NoError)
  /\ exTrips = 0
  /\ exDone = FALSE

NoBackoff == [pre |-> [num |-> 0, den |-> 1], value |-> 0]

\* No backoff run.
BkIdle ==
  /\ bkIn = [minWait |-> 0, maxWait |-> 0, attempt |-> 1, draw |-> 0]
  /\ bkOut = NoBackoff
  /\ bkDone = FALSE

\* A scaling of the validator run: num / ScalingDen, or a NaN.
NoScaling == [nan |-> FALSE, num |-> 0]

\* No validator run.
VsIdle ==
  /\ vsIn = NoScaling
  /\ vsOut = "nil"
  /\ vsDone = FALSE

\* &APIError{} with every field zero.
ZeroAPIError == [status |-> 0, requestId |-> "", code |-> "", message |-> ""]

NoDocument == [raw |-> "", valid |-> FALSE, fields |-> << >>]

\* No parse run.
PeIdle ==
  /\ peIn = [status |-> 0, rid |-> "", body |-> NoDocument]
  /\ peOut = ZeroAPIError
  /\ peDone = FALSE

\* A *Request with a nil Body, and no *http.Request built from it.
NoRequest == [Body |-> [kind |-> "nil"], methodOK |-> TRUE]
NotBuilt == [state |-> "none"]

\* No body run.
GbIdle ==
  /\ req = NoRequest
  /\ httpReq = NotBuilt
  /\ sent = << >>
  /\ replays = << >>

\* The calls of the runs of several calls.
CallIds == {1, 2}

\* transport.New(cfg) with the given retry settings.
New(mr, minWait, maxWait) ==
  [httpClient |-> "httpClient", baseURL |-> "baseURL", apiKey |-> "apiKey",
   userAgent |-> "userAgent", debug |-> FALSE, logger |-> "nil",
   retrier |-> [maxRetries |-> mr, minWait |-> minWait, maxWait |-> maxWait]]

\* A call of Do (m = "json") or DoRaw (m = "raw") not yet made: its locals,
\* its context, what it returned, and what it has observed so far.
NewCall(m) ==
  [mode |-> m, pc |-> "idle", attempt |-> 0, lastErr |-> NoError,
   ctxErr |-> "none", timerFired |-> FALSE, started |-> << >>,
   waits |-> << >>, result |-> Pair(NilResp, NoError), obs |-> << >>]

\* No run of several calls.
CcIdle ==
  /\ client = New(0, 0, 0)
  /\ calls = [i \in CallIds |-> NewCall("json")]

\* None of the runs that stand apart.
RestIdle == VsIdle /\ PeIdle /\ GbIdle /\ CcIdle

\* No call of Do / DoRaw: a Retrier as NewRetrier(0, ...) left it.
DoIdle ==
  /\ maxRetries = 0
  /\ pc = "idle"
  /\ attempt = 0
  /\ lastErr = NoError
  /\ ctxErr = "none"
  /\ timerFired = FALSE
  /\ started = << >>
  /\ history = << >>
  /\ cancelAt = NotCancelled
  /\ result = Pair(NilResp, NoError)
  /\ trips = 0
  /\ waits = << >>

Init ==
  /\ maxRetries \in (0 - 1) .. MaxRetriesBound
  /\ mode \in {"json", "raw"}
  /\ pc = "idle"
  /\ attempt = 0
  /\ lastErr = NoError
  /\ ctxErr = "none"
  /\ timerFired = FALSE
  /\ started = << >>
  /\ history = << >>
  /\ cancelAt = NotCancelled
  /\ result = Pair(NilResp, NoError)
  /\ trips = 0
  /\ waits = << >>
  /\ ClsIdle
  /\ ExIdle
  /\ BkIdle
  /\ RestIdle

\* Do / DoRaw returns ret.
Return(ret) ==
  /\ pc' = "done"
  /\ result' = ret

\* Do / DoRaw is called: lastErr is nil, attempt is 0, and attempt 0 runs
\* fn() at once when the loop condition lets it.
Call ==
  /\ pc = "idle"
  /\ lastErr' = NoError
  /\ attempt' = 0
  /\ IF LoopCond(0, maxRetries)
       THEN /\ pc' = "call"
            /\ started' = Append(started, 0)
            /\ UNCHANGED result
       ELSE /\ Return(Exhausted(NoError))
            /\ UNCHANGED started
  /\ UNCHANGED << trips, waits, maxRetries, mode, ctxErr, timerFired, history, cancelAt,
                  clsVars, exVars, bkVars, restVars >>

\* fn() returns; the rest of the iteration runs up to the return or to
\* wait()'s time.After.
FnReturn ==
  /\ pc = "call"
  /\ \E n \in NetOutcomes :
       /\ (n.net = "http" /\ n.cause = "context") => ctxErr # "none"
       /\ LET r == fn(mode, n)
              s == iteration(mode, r, lastErr, attempt, maxRetries, ctxErr)
          IN  /\ history' =
                   Append(history, [idx |-> attempt, resp |-> r.resp, err |-> r.err])
              /\ trips' = trips + roundTrips(n)
              /\ waits' = IF s.next = "wait" THEN Append(waits, s.attempt)
                                              ELSE waits
              /\ lastErr' = s.lastErr
              /\ attempt' = s.attempt
              /\ IF s.next = "return"
                   THEN /\ Return(s.ret)
                        /\ UNCHANGED timerFired
                   ELSE /\ pc' = "select"
                        /\ timerFired' = FALSE
                        /\ UNCHANGED result
  /\ UNCHANGED << maxRetries, mode, ctxErr, started, cancelAt, clsVars,
                  exVars, bkVars, restVars >>

\* A wait() that never returns to the loop.
AfterWaitParksAgain(e) ==
  /\ pc' = "parked"
  /\ UNCHANGED << started, result >>

\* wait() returned e to the loop: the call returns it, or fn() is invoked.
AfterWait(e) ==
  IF e # NoError
    THEN /\ Return(Pair(NilResp, e))
         /\ UNCHANGED started
    ELSE /\ pc' = "call"
         /\ started' = Append(started, attempt)
         /\ UNCHANGED result

\* wait() polls its select: one of the ready cases is taken, and with none
\* ready the goroutine parks.
SelectPoll ==
  /\ pc = "select"
  /\ IF ReadyCases(ctxErr, timerFired) = {}
       THEN /\ pc' = "parked"
            /\ UNCHANGED << started, result >>
       ELSE \E k \in ReadyCases(ctxErr, timerFired) :
              AfterWait(waitResult(k, ctxErr))
  /\ UNCHANGED << trips, waits, maxRetries, mode, attempt, lastErr, ctxErr, timerFired,
                  history, cancelAt, clsVars, exVars, bkVars, restVars >>

\* The timer fires before the select was polled.
TimerFire ==
  /\ pc = "select"
  /\ ~timerFired
  /\ timerFired' = TRUE
  /\ UNCHANGED << trips, waits, maxRetries, mode, pc, attempt, lastErr, ctxErr, started,
                  history, cancelAt, result, clsVars, exVars, bkVars, restVars >>

\* The timer fires on a parked select: wait() takes the timer case.
WaitElapsed ==
  /\ pc = "parked"
  /\ timerFired' = TRUE
  /\ AfterWait(waitResult("timer", ctxErr))
  /\ UNCHANGED << trips, waits, maxRetries, mode, attempt, lastErr, ctxErr, history,
                  cancelAt, clsVars, exVars, bkVars, restVars >>

\* A select woken by ctx.Done() resumes: wait() takes the ctx case.
WaitCancelled ==
  /\ pc = "wokeCtx"
  /\ AfterWait(waitResult("ctx", ctxErr))
  /\ UNCHANGED << trips, waits, maxRetries, mode, attempt, lastErr, ctxErr, timerFired,
                  history, cancelAt, clsVars, exVars, bkVars, restVars >>

\* The caller cancels the context, or its deadline passes.  A parked select
\* is woken with the ctx case.
Cancel ==
  /\ pc # "done"
  /\ ctxErr = "none"
  /\ \E c \in {"canceled", "deadline"} : ctxErr' = c
  /\ cancelAt' = [at |-> pc, attempt |-> attempt]
  /\ pc' = IF pc = "parked" THEN "wokeCtx" ELSE pc
  /\ UNCHANGED << trips, waits, maxRetries, mode, attempt, lastErr, timerFired, started,
                  history, result, clsVars, exVars, bkVars, restVars >>

Next ==
  \/ Call
  \/ FnReturn
  \/ SelectPoll
  \/ TimerFire
  \/ WaitElapsed
  \/ WaitCancelled
  \/ Cancel

Spec == Init /\ [][Next]_vars

\* The scheduler runs the goroutine of the call whenever it can run, every
\* fn() returns (httpClient.Do is bounded by http.Client.Timeout and the
\* context), and the timer of time.After fires.  Cancel and TimerFire stay
\* free: the caller need not cancel, and the timer may fire only once the
\* select has parked.
Fairness ==
  /\ WF_vars(Call)
  /\ WF_vars(FnReturn)
  /\ WF_vars(SelectPoll)
  /\ WF_vars(WaitElapsed)
  /\ WF_vars(WaitCancelled)

SpecLive == Spec /\ Fairness

\* ------------------------------------------------------ the classifier run

\* The classifier run starts from any *APIError a caller can hold, not yet
\* classified; the retry loop's variables stay as NewRetrier(0, ...) left them.
InitErr ==
  /\ maxRetries = 0
  /\ mode = "json"
  /\ pc = "idle"
  /\ attempt = 0
  /\ lastErr = NoError
  /\ ctxErr = "none"
  /\ timerFired = FALSE
  /\ started = << >>
  /\ history = << >>
  /\ cancelAt = NotCancelled
  /\ result = Pair(NilResp, NoError)
  /\ clsErr \in {APIError(st, code) : st \in 0 .. MaxStatus,
                                       code \in KnownCodes \cup {""}}
  /\ clsDone = FALSE
  /\ clsVerdict = FALSE
  /\ clsPreds = NoPreds
  /\ trips = 0
  /\ waits = << >>
  /\ ExIdle
  /\ BkIdle
  /\ RestIdle

\* Retryable and the four predicates are asked of the error.
Classify ==
  /\ ~clsDone
  /\ clsErr.kind = "api"
  /\ clsVerdict' = Retryable(clsErr)
  /\ clsDone' = TRUE
  /\ clsPreds' = Predicates(clsErr)
  /\ UNCHANGED << doVars, mode, clsErr, exVars, bkVars, restVars >>

NextErr == Classify

SpecErr == InitErr /\ [][NextErr]_vars

\* -------------------------------------------------------- the executor run

\* Statuses, bodies and headers of the executor run.
ExStatuses ==
  { 200, 204, 400, StatusUnauthorized, StatusPaymentRequired, 404,
    StatusTooManyRequests, StatusInternalServerError,
    StatusServiceUnavailable }
ExBodies ==
  { [json |-> FALSE, code |-> ""], [json |-> TRUE, code |-> ""],
    [json |-> TRUE, code |-> ErrCodePromptTooLong],
    [json |-> FALSE, code |-> ErrCodeRateLimit] }
ExErrHeaders == {"", ErrCodeContentViolation}
ExCreditsUsed ==
  { NoHeader, << "1", "8" >>, << "0" >>, << "a", "b", "c" >>,
    << "1", "2", "x" >>, << "-", "5" >>, << "-" >>, << " ", "7" >> }
ExCreditsRemaining == { NoHeader, << "4", "2" >>, << "x", "9" >> }
ExViolationHeaders == {"", "true", "TRUE", "false"}

ExResponses ==
  [net : {"response"}, status : ExStatuses, errHeader : ExErrHeaders,
   readOK : BOOLEAN, body : ExBodies, credUsed : ExCreditsUsed,
   credRem : ExCreditsRemaining, cv : ExViolationHeaders]

\* One execute / executeRaw call on its own, of either mode, meeting any of
\* the failures or responses.
InitExec ==
  /\ DoIdle
  /\ mode \in {"json", "raw"}
  /\ ClsIdle
  /\ BkIdle
  /\ RestIdle
  /\ exIn \in NetFailures \cup ExResponses
  /\ exOut = Pair(NilResp, NoError)
  /\ exTrips = 0
  /\ exDone = FALSE

\* execute / executeRaw runs and returns.
Execute ==
  /\ ~exDone
  /\ exIn # NoInput
  /\ exOut' = fn(mode, exIn)
  /\ exTrips' = roundTrips(exIn)
  /\ exDone' = TRUE
  /\ UNCHANGED << doVars, mode, exIn, clsVars, bkVars, restVars >>

NextExec == Execute

SpecExec == InitExec /\ [][NextExec]_vars

\* --------------------------------------------------------- the backoff run

\* Largest minWait and maxWait of the backoff run, in time.Duration units.
MaxWaitBound == 6

\* Largest attempt index of the backoff run.
MaxBackoffAttempt == 3

\* rand.Float64() is drawn as draw / JitterSteps, draw in 0 .. JitterSteps-1.
JitterSteps == 4

\* math.Pow(2, n) for n >= 0.
RECURSIVE Pow2(_)
Pow2(n) == IF n <= 0 THEN 1 ELSE 2 * Pow2(n - 1)

\* time.Duration(x) of the float x = num / den, den > 0: toward zero.
Trunc(num, den) ==
  IF num >= 0 THEN num \div den ELSE 0 - ((0 - num) \div den)

\* backoff after backoff += jitter, as the fraction num / den:
\*   backoff = minWait * 2^(attempt-1)
\*   jitter  = backoff * 0.25 * (rand*2 - 1),  rand = draw / JitterSteps.
jittered(a, minWait, draw) ==
  [num |-> minWait * Pow2(a - 1) * (3 * JitterSteps + 2 * draw),
   den |-> 4 * JitterSteps]

\* calculateBackoff without the clamp to maxWait.
calculateBackoffNoClamp(a, minWait, maxWait, draw) ==
  LET b == jittered(a, minWait, draw) IN Trunc(b.num, b.den)

\* calculateBackoff clamping to minWait from below as well.
calculateBackoffFloorMinWait(a, minWait, maxWait, draw) ==
  LET b == jittered(a, minWait, draw)
      v == IF b.num > maxWait * b.den THEN maxWait ELSE Trunc(b.num, b.den)
  IN  IF v < minWait THEN minWait ELSE v

\* Retrier.calculateBackoff.
calculateBackoff(a, minWait, maxWait, draw) ==
  LET b == jittered(a, minWait, draw)
  IN  IF b.num > maxWait * b.den THEN maxWait ELSE Trunc(b.num, b.den)

\* calculateBackoff is about to be called with any non-negative minWait and
\* maxWait, attempt index and random draw.
InitBackoff ==
  /\ DoIdle
  /\ mode = "json"
  /\ ClsIdle
  /\ ExIdle
  /\ RestIdle
  /\ bkIn \in [minWait : 0 .. MaxWaitBound, maxWait : 0 .. MaxWaitBound,
               attempt : 1 .. MaxBackoffAttempt, draw : 0 .. (JitterSteps - 1)]
  /\ bkOut = NoBackoff
  /\ bkDone = FALSE

\* calculateBackoff runs and returns.
Backoff ==
  /\ ~bkDone
  /\ bkOut' = [pre |-> jittered(bkIn.attempt, bkIn.minWait, bkIn.draw),
               value |-> calculateBackoff(bkIn.attempt, bkIn.minWait,
                                          bkIn.maxWait, bkIn.draw)]
  /\ bkDone' = TRUE
  /\ UNCHANGED << doVars, mode, bkIn, clsVars, exVars, restVars >>

NextBackoff == Backoff

SpecBackoff == InitBackoff /\ [][NextBackoff]_vars

\* ------------------------------------------------------- the validator run

\* MinScaling and MaxScaling of validator.go.
MinScaling == 1
MaxScaling == 15

\* A float64 scaling is num / ScalingDen, num within -MaxScalingNum ..
\* MaxScalingNum, or a NaN.
ScalingDen == 4
MaxScalingNum == 100

Scalings ==
  [nan : {FALSE}, num : (0 - MaxScalingNum) .. MaxScalingNum]
    \cup {[nan |-> TRUE, num |-> 0]}

\* The float64 comparisons s == c, s < c and s > c with the constant c: each
\* is false of a NaN.
FloatEq(s, c) == ~s.nan /\ s.num = c * ScalingDen
FloatLess(s, c) == ~s.nan /\ s.num < c * ScalingDen
FloatGreater(s, c) == ~s.nan /\ s.num > c * ScalingDen

\* ValidateScaling without the case of the zero scaling.
ValidateScalingNoZero(s) ==
  IF FloatLess(s, MinScaling) \/ FloatGreater(s, MaxScaling)
    THEN "ErrInvalidScaling"
    ELSE "nil"

\* ValidateScaling.
ValidateScaling(s) ==
  IF FloatEq(s, 0) THEN "nil"
  ELSE IF FloatLess(s, MinScaling) \/ FloatGreater(s, MaxScaling)
    THEN "ErrInvalidScaling"
  ELSE "nil"

\* ValidateScaling is about to be called with any scaling.
InitScaling ==
  /\ DoIdle
  /\ mode = "json"
  /\ ClsIdle
  /\ ExIdle
  /\ BkIdle
  /\ vsIn \in Scalings
  /\ vsOut = "nil"
  /\ vsDone = FALSE
  /\ PeIdle
  /\ GbIdle
  /\ CcIdle

\* ValidateScaling runs and returns.
Validate ==
  /\ ~vsDone
  /\ vsOut' = ValidateScaling(vsIn)
  /\ vsDone' = TRUE
  /\ UNCHANGED << doVars, mode, clsVars, exVars, bkVars, vsIn, peVars,
                  gbVars, ccVars >>

NextScaling == Validate

SpecScaling == InitScaling /\ [][NextScaling]_vars

\* ----------------------------------------------------------- the parse run

\* A response body: its bytes as text, whether they are a JSON object, and
\* the members of that object by key, each with the type of its value.
Member(key, type, value) == [key |-> key, type |-> type, value |-> value]

ParseBodies ==
  { NoDocument,
    [raw |-> "upstream connect error", valid |-> FALSE, fields |-> << >>],
    [raw |-> "{}", valid |-> TRUE, fields |-> << >>],
    [raw |-> "{\"error_code\":\"PROMPT_TOO_LONG\",\"message\":\"too long\"}",
     valid |-> TRUE,
     fields |-> << Member("error_code", "string", "PROMPT_TOO_LONG"),
                   Member("message", "string", "too long") >>],
    [raw |-> "{\"error_code\":\"RATE_LIMIT_EXCEEDED\",\"message\":42}",
     valid |-> TRUE,
     fields |-> << Member("error_code", "string", "RATE_LIMIT_EXCEEDED"),
                   Member("message", "number", "42") >>],
    [raw |-> "{\"message\":\"denied\",\"params\":\"none\"}",
     valid |-> TRUE,
     fields |-> << Member("message", "string", "denied"),
                   Member("params", "string", "none") >>],
    [raw |-> "{\"message\":\"m\",\"StatusCode\":200,\"RequestID\":\"forged\"}",
     valid |-> TRUE,
     fields |-> << Member("message", "string", "m"),
                   Member("StatusCode", "number", "200"),
                   Member("RequestID", "string", "forged") >>] }

ParseStatuses ==
  { 200, 400, StatusUnauthorized, StatusPaymentRequired, 404,
    StatusTooManyRequests, StatusInternalServerError, StatusBadGateway,
    StatusServiceUnavailable, StatusGatewayTimeout, MaxStatus }

ParseRequestIds == {"", "req-7"}

\* The JSON type each decodable field of APIError takes; StatusCode and
\* RequestID carry the tag json:"-" and are no fields to the decoder.
FieldType ==
  ("error_code" :> "string") @@ ("message" :> "string") @@
  ("params" :> "object")

\* The value the body gives the field key, "" when it gives none of the
\* field's type.
Decoded(body, key) ==
  LET hits == {i \in 1 .. Len(body.fields) :
                 body.fields[i].key = key
                   /\ body.fields[i].type = FieldType[key]}
  IN  IF hits = {} THEN "" ELSE body.fields[CHOOSE i \in hits : TRUE].value

\* json.Unmarshal(body, apiErr): a syntax error stores nothing; a member of
\* the wrong type is skipped, the rest is stored, and the error is returned.
Unmarshal(body) ==
  LET mistyped == {i \in 1 .. Len(body.fields) :
                     body.fields[i].key \in DOMAIN FieldType
                       /\ body.fields[i].type # FieldType[body.fields[i].key]}
  IN  [ok |-> body.valid /\ mistyped = {},
       code |-> IF body.valid THEN Decoded(body, "error_code") ELSE "",
       message |-> IF body.valid THEN Decoded(body, "message") ELSE ""]

\* http.StatusText.
StatusText(st) ==
  CASE st = 200 -> "OK"
    [] st = 400 -> "Bad Request"
    [] st = StatusUnauthorized -> "Unauthorized"
    [] st = StatusPaymentRequired -> "Payment Required"
    [] st = 404 -> "Not Found"
    [] st = StatusTooManyRequests -> "Too Many Requests"
    [] st = StatusInternalServerError -> "Internal Server Error"
    [] st = StatusBadGateway -> "Bad Gateway"
    [] st = StatusServiceUnavailable -> "Service Unavailable"
    [] st = StatusGatewayTimeout -> "Gateway Timeout"
    [] OTHER -> ""

\* ParseError keeping the message the decoder stored when decoding failed.
ParseErrorFieldsNoFallback(status, rid, body) ==
  LET u == Unmarshal(body)
  IN  [status |-> status, requestId |-> rid,
       code |-> ParseError(status, [json |-> u.ok, code |-> u.code]).code,
       message |-> u.message]

\* ParseError, every field of the *APIError it returns.
ParseErrorFields(status, rid, body) ==
  LET u == Unmarshal(body)
      message == IF u.ok THEN u.message
                 ELSE IF body.raw # "" THEN body.raw
                 ELSE StatusText(status)
  IN  [status |-> status, requestId |-> rid,
       code |-> ParseError(status, [json |-> u.ok, code |-> u.code]).code,
       message |-> message]

\* ParseError is about to be called with any response of the parse run.
InitParse ==
  /\ DoIdle
  /\ mode = "json"
  /\ ClsIdle
  /\ ExIdle
  /\ BkIdle
  /\ VsIdle
  /\ GbIdle
  /\ CcIdle
  /\ peIn \in [status : ParseStatuses, rid : ParseRequestIds, body : ParseBodies]
  /\ peOut = ZeroAPIError
  /\ peDone = FALSE

\* ParseError runs and returns.
Parse ==
  /\ ~peDone
  /\ peOut' = ParseErrorFields(peIn.status, peIn.rid, peIn.body)
  /\ peDone' = TRUE
  /\ UNCHANGED << doVars, mode, clsVars, exVars, bkVars, vsVars, peIn,
                  gbVars, ccVars >>

NextParse == Parse

SpecParse == InitParse /\ [][NextParse]_vars

\* ------------------------------------------------------------ the body run

\* The GetBody calls of the body run.
MaxReplays == 2

\* The bytes one Read of a reader takes at most.
ReadSize == 3

\* Request.Body: nil, a value encoding/json has no encoding for, or a
\* types.Postprocess.
Bodies ==
  { [kind |-> "nil"], [kind |-> "unsupported"] }
    \cup [kind : {"Postprocess"}, Process : {"upscale", "remove_background"},
          UpscaleFactor : {0, 2, 4}]

Requests == [Body : Bodies, methodOK : BOOLEAN]

\* strconv's decimal text of the upscale factors in use.
Itoa(n) == CASE n = 0 -> "0" [] n = 2 -> "2" [] n = 4 -> "4"

\* json.Marshal(req.Body), byte by byte in the units of the JSON text: the
\* field upscale_factor is left out when zero (omitempty).
Marshal(b) ==
  IF b.kind = "unsupported" THEN [err |-> "unsupported type", data |-> << >>]
  ELSE [err |-> "",
        data |->
          << "{", "\"process\"", ":", "\"", b.Process, "\"" >>
            \o (IF b.UpscaleFactor = 0 THEN << >>
                ELSE << ",", "\"upscale_factor\"", ":",
                        Itoa(b.UpscaleFactor) >>)
            \o << "}" >>]

\* bytes.NewReader(data).
NewReader(data) == [data |-> data, pos |-> 0]

\* One Read of at most ReadSize bytes: the bytes and the reader after it.
Read(rd) ==
  LET end == IF rd.pos + ReadSize > Len(rd.data) THEN Len(rd.data)
             ELSE rd.pos + ReadSize
  IN  [out |-> SubSeq(rd.data, rd.pos + 1, end),
       reader |-> [rd EXCEPT !.pos = end]]

\* The reader is at its end: a Read returns io.EOF.
AtEOF(rd) == rd.pos = Len(rd.data)

\* A GetBody handing out the request's own body reader where it stands.
getBodySameReader(bodyData, bodyReader) == bodyReader

\* The closure getBody: a fresh reader over bodyData.
getBody(bodyData, bodyReader) == NewReader(bodyData)

\* buildRequest.
buildRequest(r) ==
  LET m == IF r.Body.kind = "nil" THEN [err |-> "", data |-> << >>]
           ELSE Marshal(r.Body)
  IN  IF m.err # ""
        THEN [state |-> "failed", err |-> RequestError("marshal", m.err)]
      ELSE IF ~r.methodOK
        THEN [state |-> "failed",
              err |-> RequestError("create request", "bad method")]
      ELSE [state |-> "built", bodyData |-> m.data, Body |-> NewReader(m.data),
            hasBody |-> r.Body.kind # "nil"]

\* buildRequest is about to be called with any request of the body run.
InitBody ==
  /\ DoIdle
  /\ mode = "json"
  /\ ClsIdle
  /\ ExIdle
  /\ BkIdle
  /\ VsIdle
  /\ PeIdle
  /\ CcIdle
  /\ req \in Requests
  /\ httpReq = NotBuilt
  /\ sent = << >>
  /\ replays = << >>

\* buildRequest runs and returns.
BuildRequest ==
  /\ httpReq = NotBuilt
  /\ httpReq' = buildRequest(req)
  /\ UNCHANGED << doVars, mode, clsVars, exVars, bkVars, vsVars, peVars,
                  ccVars, req,
                  sent, replays >>

\* The transport reads the next bytes off the request's body to send them.
SendBody ==
  /\ httpReq.state = "built"
  /\ httpReq.hasBody
  /\ ~AtEOF(httpReq.Body)
  /\ sent' = sent \o Read(httpReq.Body).out
  /\ httpReq' = [httpReq EXCEPT !.Body = Read(httpReq.Body).reader]
  /\ UNCHANGED << doVars, mode, clsVars, exVars, bkVars, vsVars, peVars,
                  ccVars, req,
                  replays >>

\* httpReq.GetBody() is called, at any time after the request was built.
GetBody ==
  /\ httpReq.state = "built"
  /\ httpReq.hasBody
  /\ Len(replays) < MaxReplays
  /\ replays' =
       Append(replays,
              [reader |-> getBody(httpReq.bodyData, httpReq.Body),
               out |-> << >>])
  /\ UNCHANGED << doVars, mode, clsVars, exVars, bkVars, vsVars, peVars,
                  ccVars, req,
                  httpReq, sent >>

\* The next bytes are read off one of the readers GetBody handed out.
ReadReplay ==
  /\ \E i \in 1 .. Len(replays) :
       /\ ~AtEOF(replays[i].reader)
       /\ replays' =
            [replays EXCEPT ![i] =
               [reader |-> Read(replays[i].reader).reader,
                out |-> replays[i].out \o Read(replays[i].reader).out]]
  /\ UNCHANGED << doVars, mode, clsVars, exVars, bkVars, vsVars, peVars,
                  ccVars, req,
                  httpReq, sent >>

NextBody ==
  \/ BuildRequest
  \/ SendBody
  \/ GetBody
  \/ ReadReplay

SpecBody == InitBody /\ [][NextBody]_vars

\* ------------------------------------------------------------ several calls

\* Largest maxRetries of the runs of several calls.
MaxConcRetries == 1

\* What a call observes: fn()'s return with the ctx.Err() of that moment, or
\* the case wait()'s select took.
SeenFn(r, c) == [step |-> "fn", r |-> r, case |-> "", ctx |-> c]
SeenWait(k, c) ==
  [step |-> "wait", r |-> Pair(NilResp, NoError), case |-> k, ctx |-> c]

\* A loop variable kept in one place for all the calls.
loopVarShared(cs, i) ==
  CHOOSE a \in {cs[j].attempt : j \in DOMAIN cs} :
    \A j \in DOMAIN cs : cs[j].attempt <= a

\* The loop variable of call i: `attempt` is a local of Do / DoRaw.
loopVar(cs, i) == cs[i].attempt

\* Do / DoRaw is entered by call c on a Retrier with maxRetries mr.
CallOf(c, mr) ==
  IF LoopCond(0, mr)
    THEN [c EXCEPT !.pc = "call", !.attempt = 0, !.lastErr = NoError,
                   !.started = Append(@, 0)]
    ELSE [c EXCEPT !.pc = "done", !.attempt = 0, !.lastErr = NoError,
                   !.result = Exhausted(NoError)]

\* fn() returns r to call c, whose loop variable is a.
FnReturnOf(c, a, mr, r) ==
  LET s == iteration(c.mode, r, c.lastErr, a, mr, c.ctxErr)
  IN  IF s.next = "return"
        THEN [c EXCEPT !.pc = "done", !.result = s.ret,
                       !.lastErr = s.lastErr, !.attempt = s.attempt,
                       !.obs = Append(@, SeenFn(r, c.ctxErr))]
        ELSE [c EXCEPT !.pc = "select", !.timerFired = FALSE,
                       !.lastErr = s.lastErr, !.attempt = s.attempt,
                       !.waits = Append(@, s.attempt),
                       !.obs = Append(@, SeenFn(r, c.ctxErr))]

\* wait()'s select of call c took case k.
AfterWaitOf(c, a, k) ==
  IF waitResult(k, c.ctxErr) # NoError
    THEN [c EXCEPT !.pc = "done",
                   !.result = Pair(NilResp, waitResult(k, c.ctxErr)),
                   !.obs = Append(@, SeenWait(k, c.ctxErr))]
    ELSE [c EXCEPT !.pc = "call", !.started = Append(@, a),
                   !.obs = Append(@, SeenWait(k, c.ctxErr))]

\* The context of call c is cancelled; a parked select is woken.
CancelOf(c, e) ==
  [c EXCEPT !.ctxErr = e, !.pc = IF c.pc = "parked" THEN "wokeCtx" ELSE c.pc]

\* What the attempts of the runs of several calls meet.
ConcOutcomes ==
  {n \in NetOutcomes :
     \/ n.net = "marshal"
     \/ /\ n.net = "response"
        /\ n.readOK
        /\ n.body = [json |-> TRUE, code |-> ""]}

\* Two calls not yet made, each of Do or of DoRaw, on one Client.
InitConc ==
  /\ DoIdle
  /\ mode = "json"
  /\ ClsIdle
  /\ ExIdle
  /\ BkIdle
  /\ VsIdle
  /\ PeIdle
  /\ GbIdle
  /\ \E mr \in (0 - 1) .. MaxConcRetries : client = New(mr, 1, 2)
  /\ calls \in [CallIds -> {NewCall(m) : m \in {"json", "raw"}}]

StepOthers ==
  UNCHANGED << doVars, mode, clsVars, exVars, bkVars, vsVars, peVars, gbVars >>

\* Call i enters Do / DoRaw.
ConcCall(i) ==
  /\ calls[i].pc = "idle"
  /\ calls' = [calls EXCEPT ![i] = CallOf(@, client.retrier.maxRetries)]
  /\ UNCHANGED client
  /\ StepOthers

\* fn() returns to call i.
ConcFnReturn(i) ==
  /\ calls[i].pc = "call"
  /\ \E n \in ConcOutcomes :
       calls' = [calls EXCEPT ![i] =
                   FnReturnOf(@, loopVar(calls, i), client.retrier.maxRetries,
                              fn(calls[i].mode, n))]
  /\ UNCHANGED client
  /\ StepOthers

\* wait() of call i polls its select.
ConcSelectPoll(i) ==
  /\ calls[i].pc = "select"
  /\ IF ReadyCases(calls[i].ctxErr, calls[i].timerFired) = {}
       THEN calls' = [calls EXCEPT ![i].pc = "parked"]
       ELSE \E k \in ReadyCases(calls[i].ctxErr, calls[i].timerFired) :
              calls' = [calls EXCEPT ![i] = AfterWaitOf(@, loopVar(calls, i), k)]
  /\ UNCHANGED client
  /\ StepOthers

\* The timer of call i fires before its select was polled.
ConcTimerFire(i) ==
  /\ calls[i].pc = "select"
  /\ ~calls[i].timerFired
  /\ calls' = [calls EXCEPT ![i].timerFired = TRUE]
  /\ UNCHANGED client
  /\ StepOthers

\* The timer of call i fires on its parked select.
ConcWaitElapsed(i) ==
  /\ calls[i].pc = "parked"
  /\ calls' = [calls EXCEPT ![i] =
                 AfterWaitOf([@ EXCEPT !.timerFired = TRUE],
                             loopVar(calls, i), "timer")]
  /\ UNCHANGED client
  /\ StepOthers

\* The select of call i, woken by ctx.Done(), resumes.
ConcWaitCancelled(i) ==
  /\ calls[i].pc = "wokeCtx"
  /\ calls' = [calls EXCEPT ![i] = AfterWaitOf(@, loopVar(calls, i), "ctx")]
  /\ UNCHANGED client
  /\ StepOthers

\* The context of call i is cancelled.
ConcCancel(i) ==
  /\ calls[i].pc # "done"
  /\ calls[i].ctxErr = "none"
  /\ calls' = [calls EXCEPT ![i] = CancelOf(@, "canceled")]
  /\ UNCHANGED client
  /\ StepOthers

NextConc ==
  \E i \in CallIds :
    \/ ConcCall(i)
    \/ ConcFnReturn(i)
    \/ ConcSelectPoll(i)
    \/ ConcTimerFire(i)
    \/ ConcWaitElapsed(i)
    \/ ConcWaitCancelled(i)
    \/ ConcCancel(i)

SpecConc == InitConc /\ [][NextConc]_vars

\* ------------------------------------------------------ Do beside DoRaw

\* success, retryable failure or non-retryable failure.
OutcomeKind(r) ==
  IF Succeeded(r) THEN "success"
  ELSE IF shouldRetry(r.err) THEN "retryable failure"
  ELSE "non-retryable failure"

\* Call 1 is a Do and call 2 a DoRaw, on Retriers of one configuration.
InitPair ==
  /\ DoIdle
  /\ mode = "json"
  /\ ClsIdle
  /\ ExIdle
  /\ BkIdle
  /\ VsIdle
  /\ PeIdle
  /\ GbIdle
  /\ \E mr \in (0 - 1) .. MaxRetriesBound : client = New(mr, 1, 2)
  /\ calls = (1 :> NewCall("json")) @@ (2 :> NewCall("raw"))

\* Both calls are made.
PairCall ==
  /\ \A i \in CallIds : calls[i].pc = "idle"
  /\ calls' = [i \in CallIds |-> CallOf(calls[i], client.retrier.maxRetries)]
  /\ UNCHANGED client
  /\ StepOthers

\* fn() returns to both calls, with outcomes of one kind.
PairFnReturn ==
  /\ \A i \in CallIds : calls[i].pc = "call"
  /\ \E n1, n2 \in ConcOutcomes :
       /\ OutcomeKind(execute(n1)) = OutcomeKind(executeRaw(n2))
       /\ calls' =
            (1 :> FnReturnOf(calls[1], loopVar(calls, 1),
                             client.retrier.maxRetries, execute(n1)))
              @@ (2 :> FnReturnOf(calls[2], loopVar(calls, 2),
                                  client.retrier.maxRetries, executeRaw(n2)))
  /\ UNCHANGED client
  /\ StepOthers

\* Both selects are polled and take the same case, or park.
PairSelectPoll ==
  /\ \A i \in CallIds : calls[i].pc = "select"
  /\ IF \A i \in CallIds :
          ReadyCases(calls[i].ctxErr, calls[i].timerFired) = {}
       THEN calls' = [i \in CallIds |-> [calls[i] EXCEPT !.pc = "parked"]]
       ELSE \E k \in {"ctx", "timer"} :
              /\ \A i \in CallIds :
                   k \in ReadyCases(calls[i].ctxErr, calls[i].timerFired)
              /\ calls' = [i \in CallIds |->
                             AfterWaitOf(calls[i], loopVar(calls, i), k)]
  /\ UNCHANGED client
  /\ StepOthers

\* Both timers fire before the selects were polled.
PairTimerFire ==
  /\ \A i \in CallIds : calls[i].pc = "select" /\ ~calls[i].timerFired
  /\ calls' = [i \in CallIds |-> [calls[i] EXCEPT !.timerFired = TRUE]]
  /\ UNCHANGED client
  /\ StepOthers

\* Both timers fire on the parked selects.
PairWaitElapsed ==
  /\ \A i \in CallIds : calls[i].pc = "parked"
  /\ calls' = [i \in CallIds |->
                 AfterWaitOf([calls[i] EXCEPT !.timerFired = TRUE],
                             loopVar(calls, i), "timer")]
  /\ UNCHANGED client
  /\ StepOthers

\* Both selects, woken by ctx.Done(), resume.
PairWaitCancelled ==
  /\ \A i \in CallIds : calls[i].pc = "wokeCtx"
  /\ calls' = [i \in CallIds |->
                 AfterWaitOf(calls[i], loopVar(calls, i), "ctx")]
  /\ UNCHANGED client
  /\ StepOthers

\* Both contexts are cancelled at the same point.
PairCancel ==
  /\ \A i \in CallIds : calls[i].pc # "done" /\ calls[i].ctxErr = "none"
  /\ \E e \in {"canceled", "deadline"} :
       calls' = [i \in CallIds |-> CancelOf(calls[i], e)]
  /\ UNCHANGED client
  /\ StepOthers

NextPair ==
  \/ PairCall
  \/ PairFnReturn
  \/ PairSelectPoll
  \/ PairTimerFire
  \/ PairWaitElapsed
  \/ PairWaitCancelled
  \/ PairCancel

SpecPair == InitPair /\ [][NextPair]_vars

\* ------------------------------------------------------------------ claims

Done == pc = "done"

\* The statuses the specification lists as retryable.
RetryableSet == {429, 500, 502, 503, 504}

RetryableFailure(e) == e.kind = "api" /\ e.status \in RetryableSet

\* The first k-1 attempts failed with retryable API errors.
RetryablePrefix(k) ==
  \A j \in 1 .. (k - 1) : RetryableFailure(history[j].err)

\* Every returned attempt failed with a retryable API error.
AllRetryable == RetryablePrefix(Len(history) + 1)

\* C1 (as claimed): a call that has returned produced exactly one of a non-nil
\* response with no error, an API error, a request-level error or a
\* cancellation error; never a nil response with a nil error.
C1_ExactlyOneOutcome ==
  Done =>
    \/ result.resp # NilResp /\ result.err = NoError
    \/ result.resp = NilResp /\ result.err.kind \in {"api", "request", "ctx"}

\* C2: fn is invoked at most maxRetries+1 times, at the loop indices
\* 0, 1, 2, ... in increasing order, none above maxRetries.
C2_AtMostMaxRetriesPlusOne ==
  /\ Len(started) <= maxRetries + 1
  /\ \A i \in 1 .. Len(started) : started[i] = i - 1 /\ started[i] <= maxRetries

C2_Witness ==
  Done /\ maxRetries >= 2 /\ Len(started) = maxRetries + 1

\* C3: when the first k-1 attempts failed with retryable API errors and
\* attempt k succeeded, the call has returned attempt k's response with no
\* error after exactly k attempts.
C3_SuccessAfterRetries ==
  \A k \in 1 .. Len(history) :
    (RetryablePrefix(k) /\ history[k].err = NoError) =>
      /\ Done
      /\ result = Pair(history[k].resp, NoError)
      /\ result.resp # NilResp
      /\ Len(history) = k
      /\ Len(started) = k
      /\ k <= maxRetries + 1

C3_Witness ==
  /\ Done
  /\ Len(history) = 3
  /\ history[3].err = NoError
  /\ result.resp = history[3].resp

C5_NonRetryableTerminates ==
  \A k \in 1 .. Len(history) :
    (history[k].err.kind = "api" /\ history[k].err.status \notin RetryableSet) =>
      /\ Done
      /\ result = Pair(NilResp, history[k].err)
      /\ Len(history) = k
      /\ Len(started) = k

C5_Witness ==
  /\ Done
  /\ maxRetries = 2
  /\ Len(started) = 1
  /\ history[1].err.kind = "api"
  /\ history[1].err.status = 400
  /\ result.err = history[1].err

\* C6: Retryable answers true exactly for the statuses 429, 500, 502, 503 and
\* 504, whatever the error code.
C6_RetryableByStatusAlone ==
  clsDone => (clsVerdict <=> clsErr.status \in RetryableSet)

C6_Witness ==
  /\ clsDone
  /\ clsErr.status = 504
  /\ clsErr.code = ErrCodeInvalidAPIKey
  /\ clsVerdict

\* C7: an attempt that failed with a request-level error is the last one: the
\* call has returned that error right after it.
C7_RequestErrorNeverRetried ==
  \A k \in 1 .. Len(history) :
    history[k].err.kind = "request" =>
      /\ Done
      /\ result = Pair(NilResp, history[k].err)
      /\ Len(history) = k
      /\ Len(started) = k

C7_Witness ==
  /\ Done
  /\ maxRetries = 2
  /\ Len(history) = 2
  /\ history[2].err = RequestError("read response", "io")
  /\ result.err = history[2].err

TimeoutError == RequestError("http", "timeout")

C10_NoAttemptOnceCancelled ==
  [][ctxErr # "none" => started' = started]_vars

\* C10 (amended): once the context is cancelled, a new attempt is started
\* only as attempt 0 of a call made with the context already cancelled, or
\* by a wait whose timer was already ready when its select was polled; a
\* blocked wait woken by the cancellation and the ctx.Err() check after a
\* retryable failure start none.
C10_NoRetryOnceCancellationSeen ==
  [][(ctxErr # "none" /\ started' # started) =>
       (pc = "idle" \/ (pc = "select" /\ timerFired))]_vars

C10_Witness ==
  /\ Done
  /\ maxRetries = 2
  /\ cancelAt = [at |-> "call", attempt |-> 0]
  /\ RetryableFailure(history[1].err)
  /\ Len(started) = 1
  /\ result.err.kind = "ctx"

\* C11: an attempt that returned successfully is the last one: the call has
\* returned that attempt's response with no error, whatever budget remains
\* and whether or not the context was cancelled in the meantime.
C11_SuccessReturnedUnconditionally ==
  \A k \in 1 .. Len(history) :
    history[k].err = NoError =>
      /\ Done
      /\ result = Pair(history[k].resp, NoError)
      /\ result.resp # NilResp
      /\ Len(history) = k
      /\ Len(started) = k

C11_Witness ==
  /\ Done
  /\ maxRetries = 2
  /\ cancelAt = [at |-> "call", attempt |-> 0]
  /\ Len(started) = 1
  /\ history[1].err = NoError
  /\ result = Pair(history[1].resp, NoError)

\* The executor run has returned from a response (httpClient.Do succeeded).
ExResponded == exDone /\ exIn.net = "response"

\* C12: in raw mode a response with a non-empty X-Reve-Error-Code header
\* yields an API error, never a RawResponse, also when its status is 2xx.
C12_ErrorHeaderIsFailure ==
  (ExResponded /\ mode = "raw" /\ exIn.errHeader # "") =>
    /\ exOut.resp = NilResp
    /\ exOut.err.kind = "api"
    /\ exOut.err.status = exIn.status

C12_Witness ==
  /\ ExResponded
  /\ mode = "raw"
  /\ exIn.errHeader # ""
  /\ exIn.status = 200
  /\ exOut.err.kind = "api"
  /\ exOut.resp = NilResp

\* C13 (as claimed): in both modes a response with status >= 400, its body
\* readable, yields an API error and is never returned as a success.
C13_FailureStatusIsAPIError ==
  (ExResponded /\ exIn.readOK /\ exIn.status >= 400) =>
    /\ exOut.resp = NilResp
    /\ exOut.err.kind = "api"

\* The code the specification's table infers from a status.
InferredCode(st) ==
  IF st = 401 THEN "INVALID_API_KEY"
  ELSE IF st = 402 THEN "INSUFFICIENT_CREDITS"
  ELSE IF st = 429 THEN "RATE_LIMIT_EXCEEDED"
  ELSE IF st = 500 THEN "INTERNAL_ERROR"
  ELSE ""

\* C14: the API error made from a response keeps the error code decoded from
\* the body; without one (or with the body unread) its code is inferred from
\* the status alone: 401, 402, 429 and 500 by the table, every other status
\* leaves it empty.
C14_CodeKeptOrInferred ==
  (ExResponded /\ exOut.err.kind = "api") =>
    /\ (exIn.readOK /\ exIn.body.code # "") => exOut.err.code = exIn.body.code
    /\ (~exIn.readOK \/ exIn.body.code = "") =>
         exOut.err.code = InferredCode(exIn.status)
    /\ exOut.err.status = exIn.status

C14_Witness ==
  /\ ExResponded
  /\ exIn.status = 402
  /\ exIn.readOK
  /\ exIn.body = [json |-> TRUE, code |-> ""]
  /\ exOut.err = APIError(402, "INSUFFICIENT_CREDITS")

\* C15: IsRateLimit holds iff the code is RATE_LIMIT_EXCEEDED or the status
\* 429, IsInsufficientFunds iff INSUFFICIENT_CREDITS or 402,
\* IsContentViolation iff CONTENT_POLICY_VIOLATION, IsAuthError iff
\* INVALID_API_KEY or 401.
C15_Predicates ==
  clsDone =>
    /\ clsPreds.rateLimit <=>
         (clsErr.code = "RATE_LIMIT_EXCEEDED" \/ clsErr.status = 429)
    /\ clsPreds.funds <=>
         (clsErr.code = "INSUFFICIENT_CREDITS" \/ clsErr.status = 402)
    /\ clsPreds.content <=> clsErr.code = "CONTENT_POLICY_VIOLATION"
    /\ clsPreds.auth <=>
         (clsErr.code = "INVALID_API_KEY" \/ clsErr.status = 401)

C15_Witness ==
  /\ clsDone
  /\ clsErr = APIError(401, "RATE_LIMIT_EXCEEDED")
  /\ clsPreds =
       [rateLimit |-> TRUE, funds |-> FALSE, content |-> FALSE, auth |-> TRUE]

\* C16 (as claimed): every APIError on which IsAuthError is true is not
\* retryable.
C16_AuthNeverRetryable ==
  (clsDone /\ clsPreds.auth) => ~clsVerdict

\* C16 (amended): an APIError of status 401 is an auth failure and is not
\* retryable; an APIError that is an auth failure by its code
\* INVALID_API_KEY is retryable exactly when its status is one of the
\* retryable statuses.
C16_AuthRetryableByStatusOnly ==
  clsDone =>
    /\ clsErr.status = 401 => (clsPreds.auth /\ ~clsVerdict)
    /\ (clsPreds.auth /\ clsVerdict) <=>
         (clsErr.code = "INVALID_API_KEY" /\ clsErr.status \in RetryableSet)

C16_Witness ==
  /\ clsDone
  /\ clsErr.status = 401
  /\ clsErr.code = ""
  /\ clsPreds.auth
  /\ ~clsVerdict

\* minWait * 2^(a-1), the base delay of attempt a.
RECURSIVE BaseDelay(_, _)
BaseDelay(minWait, a) ==
  IF a <= 1 THEN minWait ELSE 2 * BaseDelay(minWait, a - 1)

\* The draw that makes the jitter zero: rand.Float64() = 1/2.
ZeroJitter == 2 * bkIn.draw = JitterSteps

\* C17: for every attempt index and every jitter draw the delay returned lies
\* within [0, maxWait]; with zero jitter it is minWait * 2^(a-1) clamped to
\* maxWait.
C17_BackoffWithinMaxWait ==
  bkDone =>
    /\ 0 <= bkOut.value
    /\ bkOut.value <= bkIn.maxWait
    /\ ZeroJitter =>
         bkOut.value =
           IF BaseDelay(bkIn.minWait, bkIn.attempt) > bkIn.maxWait
             THEN bkIn.maxWait
             ELSE BaseDelay(bkIn.minWait, bkIn.attempt)

C17_Witness ==
  /\ bkDone
  /\ ZeroJitter
  /\ bkIn.attempt = 3
  /\ bkIn.minWait = 1
  /\ bkIn.maxWait = 6
  /\ bkOut.value = 4

\* C18: with B = minWait * 2^(a-1) the delay before the clamp lies in
\* [0.75 B, 1.25 B]; the result is that delay cut to whole units, clamped
\* to maxWait from above only, so it can lie below minWait.
C18_JitterWithinQuarter ==
  bkDone =>
    LET B == BaseDelay(bkIn.minWait, bkIn.attempt)
        pre == bkOut.pre
    IN  /\ 3 * B * pre.den <= 4 * pre.num
        /\ 4 * pre.num <= 5 * B * pre.den
        /\ pre.num > bkIn.maxWait * pre.den => bkOut.value = bkIn.maxWait
        /\ pre.num <= bkIn.maxWait * pre.den =>
             /\ bkOut.value * pre.den <= pre.num
             /\ pre.num < (bkOut.value + 1) * pre.den

C18_Witness ==
  /\ bkDone
  /\ bkIn.attempt = 1
  /\ bkIn.minWait = 4
  /\ bkIn.maxWait = 6
  /\ bkOut.value = 3
  /\ bkOut.value < bkIn.minWait

DecimalDigits == {"0", "1", "2", "3", "4", "5", "6", "7", "8", "9"}

\* Where the number of a header text would start: after leading blanks and
\* one sign.
NumberStart(t) ==
  LET blanks == {i \in 0 .. Len(t) : \A j \in 1 .. i : t[j] = " "}
      p == (CHOOSE i \in blanks : \A k \in blanks : k <= i) + 1
  IN  IF p <= Len(t) /\ t[p] \in {"+", "-"} THEN p + 1 ELSE p

\* A header text that is absent or holds no integer to parse.
Unparsable(t) ==
  ~(NumberStart(t) <= Len(t) /\ t[NumberStart(t)] \in DecimalDigits)

BuildFailures ==
  {k \in 1 .. Len(history) :
     history[k].err.kind = "request"
       /\ history[k].err.op \in {"marshal", "create request"}}

C26_OneWaitBeforeEachRetry ==
  /\ \A i \in 1 .. Len(waits) : waits[i] = i
  /\ \A i \in 1 .. Len(started) : started[i] = i - 1
  /\ Len(waits) <= Len(started)
  /\ started # << >> => Len(waits) >= Len(started) - 1
  /\ pc = "call" => Len(waits) = Len(started) - 1
  /\ (Done /\ result.err.kind # "ctx" /\ Len(started) >= 1) =>
       Len(waits) = Len(started) - 1

C26_Witness ==
  /\ Done
  /\ ctxErr = "none"
  /\ Len(started) = 3
  /\ waits = << 1, 2 >>

\* The number vsIn stands for lies in [MinScaling, MaxScaling].
ScalingInRange ==
  /\ ~vsIn.nan
  /\ MinScaling * ScalingDen <= vsIn.num
  /\ vsIn.num <= MaxScaling * ScalingDen

\* C30 (as claimed): ValidateScaling returns nil exactly for a scaling within
\* [1, 15] and ErrInvalidScaling for every other value.
C30_AcceptsExactlyRange ==
  vsDone =>
    /\ ScalingInRange => vsOut = "nil"
    /\ ~ScalingInRange => vsOut = "ErrInvalidScaling"

\* C30 (amended): ValidateScaling returns nil exactly for the scaling 0, for
\* a scaling within [1, 15] and for a NaN, and ErrInvalidScaling for every
\* other value.
C30_AcceptsRangeOrZero ==
  vsDone =>
    /\ (ScalingInRange \/ vsIn.nan \/ vsIn.num = 0) => vsOut = "nil"
    /\ ~(ScalingInRange \/ vsIn.nan \/ vsIn.num = 0) =>
         vsOut = "ErrInvalidScaling"

C30_Witness ==
  /\ vsDone
  /\ vsIn = [nan |-> FALSE, num |-> 20 * ScalingDen]
  /\ vsOut = "ErrInvalidScaling"

\* C23: an attempt whose body fails to serialize fails with a request-level
\* error of operation "marshal" and no response, having made no round trip;
\* the call returns that error after this attempt and starts no other.
C23_MarshalFailureEndsCall ==
  \A k \in 1 .. Len(history) :
    (history[k].err.kind = "request" /\ history[k].err.op = "marshal") =>
      /\ history[k].resp = NilResp
      /\ k = Len(history)
      /\ Len(started) = k
      /\ trips = k - 1
      /\ Done
      /\ result = Pair(NilResp, history[k].err)

C23_Witness ==
  /\ Done
  /\ maxRetries = 2
  /\ Len(started) = 1
  /\ trips = 0
  /\ result.err = RequestError("marshal", "unsupported type")

\* C27: under the fairness of SpecLive every call eventually returns, and a
\* call that has returned stays returned with the result it returned.
C27_EventuallyTerminal ==
  /\ <>Done
  /\ [][Done => (Done' /\ result' = result)]_vars

C27_Witness ==
  /\ Done
  /\ Len(waits) = 2
  /\ result.err.kind = "ctx"

\* C28: an API error with a 2xx status arises in raw mode only, is not
\* retryable whatever its code, and ends the call: DoRaw returns it after
\* this attempt and starts no other.
C28_HeaderFailureNotRetried ==
  \A k \in 1 .. Len(history) :
    (history[k].err.kind = "api"
       /\ history[k].err.status >= 200 /\ history[k].err.status <= 299) =>
      /\ mode = "raw"
      /\ ~Retryable(history[k].err)
      /\ k = Len(history)
      /\ Len(started) = k
      /\ Done
      /\ result = Pair(NilResp, history[k].err)

C28_Witness ==
  /\ Done
  /\ mode = "raw"
  /\ maxRetries = 2
  /\ Len(started) = 1
  /\ result.err = APIError(200, "CONTENT_POLICY_VIOLATION")

\* An error shouldRetry does not retry, in the specification's terms.
NonRetryableFailure(e) ==
  e.kind = "request" \/ (e.kind = "api" /\ e.status \notin RetryableSet)

\* C29: a call returns the context's error only after its last attempt failed
\* with a retryable API error, from the wait that followed or directly after
\* the attempt; an attempt failing with a non-retryable error ends the call
\* with that error, also when the context is cancelled by then.
C29_CancellationOnlyAfterRetryable ==
  /\ (Done /\ result.err.kind = "ctx") =>
       /\ history # << >>
       /\ RetryableFailure(history[Len(history)].err)
       /\ result = Pair(NilResp, CtxError(ctxErr))
       /\ Len(started) = Len(history)
       /\ Len(waits) \in {Len(history) - 1, Len(history)}
       /\ Len(waits) = Len(history) => LoopCond(Len(history), maxRetries)
  /\ \A k \in 1 .. Len(history) :
       NonRetryableFailure(history[k].err) =>
         /\ Done
         /\ k = Len(history)
         /\ result = Pair(NilResp, history[k].err)

C29_Witness ==
  /\ Done
  /\ cancelAt.at = "call"
  /\ ctxErr = "canceled"
  /\ Len(history) = 2
  /\ history[2].err = APIError(400, "")
  /\ result.err = history[2].err

\* A body the decoder fails on: no JSON object, or an object giving
\* error_code, message or params a value of another type.
Undecodable(b) ==
  \/ ~b.valid
  \/ \E i \in 1 .. Len(b.fields) :
       \/ b.fields[i].key \in {"error_code", "message"}
            /\ b.fields[i].type # "string"
       \/ b.fields[i].key = "params" /\ b.fields[i].type # "object"

\* C24: when the body cannot be decoded the message is the body's text, and
\* the status text of the response's status when that text is empty; the
\* status and the request id are the response's, whatever the body holds.
C24_MessageFallback ==
  peDone =>
    /\ peOut.status = peIn.status
    /\ peOut.requestId = peIn.rid
    /\ (Undecodable(peIn.body) /\ peIn.body.raw # "") =>
         peOut.message = peIn.body.raw
    /\ (Undecodable(peIn.body) /\ peIn.body.raw = "") =>
         peOut.message = StatusText(peIn.status)
    /\ (peIn.body.raw = "" /\ peIn.status = 503) =>
         peOut.message = "Service Unavailable"

C24_Witness ==
  /\ peDone
  /\ peIn.body.raw = ""
  /\ peIn.status = 503
  /\ peIn.rid = "req-7"
  /\ peOut.message = "Service Unavailable"
  /\ peOut.requestId = "req-7"

\* The JSON text of the Postprocess bodies, written out.
Serialization(b) ==
  CASE b.UpscaleFactor = 0 ->
         << "{", "\"process\"", ":", "\"", b.Process, "\"", "}" >>
    [] b.UpscaleFactor = 2 ->
         << "{", "\"process\"", ":", "\"", b.Process, "\"", ",",
            "\"upscale_factor\"", ":", "2", "}" >>
    [] b.UpscaleFactor = 4 ->
         << "{", "\"process\"", ":", "\"", b.Process, "\"", ",",
            "\"upscale_factor\"", ":", "4", "}" >>

\* C22: for a request built from a structured body, every reader GetBody
\* hands out, read to its end, has yielded the serialization of the body, the
\* same bytes the transport sends, whenever and however often GetBody is
\* called; what it has yielded before its end is the start of those bytes.
C22_GetBodyReplaysSerialization ==
  (httpReq.state = "built" /\ req.Body.kind = "Postprocess") =>
    /\ httpReq.bodyData = Serialization(req.Body)
    /\ AtEOF(httpReq.Body) => sent = Serialization(req.Body)
    /\ \A i \in 1 .. Len(replays) :
         /\ replays[i].out =
              SubSeq(Serialization(req.Body), 1, Len(replays[i].out))
         /\ AtEOF(replays[i].reader) =>
              replays[i].out = Serialization(req.Body)

C22_Witness ==
  /\ httpReq.state = "built"
  /\ req.Body = [kind |-> "Postprocess", Process |-> "upscale",
                 UpscaleFactor |-> 2]
  /\ AtEOF(httpReq.Body)
  /\ Len(replays) = 2
  /\ AtEOF(replays[1].reader)
  /\ AtEOF(replays[2].reader)
  /\ replays[1].out = sent
  /\ replays[2].out = sent
  /\ Len(sent) = 11

\* A call of mode m run alone on a Retrier with maxRetries mr, having
\* observed obs: where Do / DoRaw stands.
RECURSIVE Alone(_, _, _)
Alone(m, mr, obs) ==
  IF obs = << >> THEN CallOf(NewCall(m), mr)
  ELSE LET before == Alone(m, mr, SubSeq(obs, 1, Len(obs) - 1))
           o == obs[Len(obs)]
           c == [before EXCEPT !.ctxErr = o.ctx]
       IN  IF o.step = "fn" THEN FnReturnOf(c, c.attempt, mr, o.r)
           ELSE AfterWaitOf(c, c.attempt, o.case)

\* What a call's count of attempts and result consist of.
Outcome(c) ==
  [done |-> c.pc = "done", attempt |-> c.attempt, lastErr |-> c.lastErr,
   started |-> c.started, waits |-> c.waits, result |-> c.result,
   obs |-> c.obs]

\* Every started call stands where it would stand run alone.
EachAsIfAlone ==
  \A i \in CallIds :
    calls[i].pc # "idle" =>
      Outcome(calls[i]) =
        Outcome(Alone(calls[i].mode, client.retrier.maxRetries, calls[i].obs))

\* A step writes no field of the Client or its Retrier, and the locals of one
\* call at most.
OneCallPerStep ==
  /\ client' = client
  /\ \E i \in CallIds : \A j \in CallIds \ {i} : calls'[j] = calls[j]

ResultKind(res) ==
  IF res.err = NoError THEN "success"
  ELSE IF res.err.kind = "ctx" THEN "cancelled"
  ELSE "failure"

\* C25: Do and DoRaw, on one configuration, fed attempt outcomes of the same
\* kinds and cancelled at the same points, stand at the same place, have made
\* the same attempts and waits, and have ended with the same kind of result.
C25_DoAndDoRawAgree ==
  /\ calls[1].pc = calls[2].pc
  /\ calls[1].attempt = calls[2].attempt
  /\ calls[1].started = calls[2].started
  /\ calls[1].waits = calls[2].waits
  /\ calls[1].lastErr = NoError <=> calls[2].lastErr = NoError
  /\ ResultKind(calls[1].result) = ResultKind(calls[2].result)
  /\ calls[1].result.resp = NilResp <=> calls[2].result.resp = NilResp

C25_Witness ==
  /\ calls[1].pc = "done"
  /\ calls[2].pc = "done"
  /\ Len(calls[1].started) = 3
  /\ Len(calls[2].waits) = 2
  /\ calls[1].result.resp.kind = "json"
  /\ calls[2].result.resp.kind = "raw"

====
